---------------------------- MODULE Spec2Model ----------------------------
(***************************************************************************)
(* Model of pkg/logql/range_vector.go: the sliding-window range vector     *)
(* iterator (newRangeVectorIterator, Next, popBack, load, At) and the      *)
(* series pool (getSeries, putSeries).                                     *)
(*                                                                         *)
(* The iterator's fields are the variables selRange, step, end, current,   *)
(* window and metrics.  window maps a fingerprint to a *promql.Series; the *)
(* pointers are buffer ids and heap maps an id to the Series it points to. *)
(* pool is the content of seriesPool.  The SeriesIterator r.iter is a      *)
(* fixed sample list (source) with a cursor.                               *)
(*                                                                         *)
(* History variables, read by the properties only: cfgStep and start (the  *)
(* constructor's arguments), nextCalls (how often iter.Next() consumed     *)
(* each sample), emptyNexts (iter.Next() calls on an exhausted source),    *)
(* calls (number of Next() calls made), trueEnds (the positions at which   *)
(* Next() returned true), ret (outcome of the last Next() call) and at     *)
(* (result of the last At() call since the last Next()) and parses (how    *)
(* often parser.ParseMetric was called for each fingerprint).  its holds   *)
(* the iterators of the concurrent specification SpecConc, which share     *)
(* heap and pool; it is empty elsewhere.                                   *)
(***************************************************************************)
EXTENDS Integers, Sequences, FiniteSets, TLC

VARIABLES source, cursor, nextCalls, emptyNexts,
          cfgStep, start, selRange, step, end, current,
          window, heap, metrics, pool,
          calls, trueEnds, ret, at, parses, its

vars == <<source, cursor, nextCalls, emptyNexts,
          cfgStep, start, selRange, step, end, current,
          window, heap, metrics, pool,
          calls, trueEnds, ret, at, parses, its>>

---------------------------------------------------------------------------
(* Bounds of the model *)

\* longest source
MaxLen == 2
\* largest sample timestamp, start and end
MaxT == 2
\* number of Next() calls a caller makes
MaxCalls == 5
\* width of the machine integers of the model (int64 in the code)
IntBits == 24

---------------------------------------------------------------------------
(* int64 arithmetic, at the width IntBits *)

MinInt == -(2 ^ (IntBits - 1))

MaxInt == (2 ^ (IntBits - 1)) - 1

\* Go's signed integer arithmetic wraps around
WrapInt(x) == ((x - MinInt) % (2 ^ IntBits)) + MinInt

\* a division that rounds toward minus infinity
FloorDiv(a, b) == a \div b

\* Go's integer division truncates toward zero
TruncDiv(a, b) == IF a >= 0 THEN a \div b ELSE -((-a) \div b)

NanosPerMilli == 1000000

---------------------------------------------------------------------------
(* Inputs *)

\* fingerprints (sample.Labels); "x" does not parse
FPs == {"a", "b", "x"}

Timestamps == 0 .. MaxT

\* the constructor's arguments
SelRanges == {1, 2}

Steps == {-1, 0, 2}

Starts == {0, 1, MaxT + 1}

Ends == {MaxT - 1, MaxT}

\* parser.ParseMetric: the label set of a fingerprint, or an error
ParseMetric(fp) ==
    IF fp = "x"
      THEN [err |-> TRUE, metric |-> {}]
      ELSE [err |-> FALSE, metric |-> {<<"app", fp>>}]

\* the sample lists a SeriesIterator can deliver: non-decreasing in timestamp.
\* The value is a payload the iterator never inspects: the sample's ordinal.
Sources ==
    UNION { { [i \in 1 .. n |->
                  [Labels |-> f[i][1], TimestampNano |-> f[i][2], Value |-> i]]
              : f \in { g \in [1 .. n -> FPs \X Timestamps] :
                          \A i \in 1 .. n - 1 : g[i][2] <= g[i + 1][2] } }
            : n \in 0 .. MaxLen }

\* RangeVectorAggregator: functions of the point sequence
Aggregators == {"sum", "count"}

RECURSIVE SumV(_)
SumV(points) ==
    IF points = <<>> THEN 0 ELSE points[1].V + SumV(Tail(points))

Aggregate(agg, points) ==
    IF agg = "sum" THEN SumV(points) ELSE Len(points)

---------------------------------------------------------------------------
(* Maps *)

EmptyMap == [k \in {} |-> 0]

MapPut(m, k, v) == [x \in DOMAIN m \cup {k} |-> IF x = k THEN v ELSE m[x]]

MapRestrict(m, keys) == [x \in keys |-> m[x]]

\* the sequences that list every element of S once
Orders(S) ==
    { o \in [1 .. Cardinality(S) -> S] :
        \A i, j \in 1 .. Cardinality(S) : i # j => o[i] # o[j] }

---------------------------------------------------------------------------
(* newRangeVectorIterator *)

\* variant of NormStep: the step is taken as configured
NormStepAsGiven(s) == s

\* forces at least one step
NormStep(s) == IF s = 0 THEN 1 ELSE s

InitCurrent(st, s) == WrapInt(st - s)

NoResult == [ts |-> 0, vec |-> <<>>, agg |-> "none"]

InitWith(src, sr, cs, st, en) ==
    /\ source = src
    /\ cursor = 1
    /\ nextCalls = [i \in 1 .. Len(src) |-> 0]
    /\ emptyNexts = 0
    /\ cfgStep = cs
    /\ start = st
    /\ selRange = sr
    /\ step = NormStep(cs)
    /\ end = en
    /\ current = InitCurrent(st, NormStep(cs))
    /\ window = EmptyMap
    /\ heap = <<>>
    /\ metrics = EmptyMap
    /\ pool = {}
    /\ calls = 0
    /\ trueEnds = <<>>
    /\ ret = "none"
    /\ at = NoResult
    /\ parses = [fp \in FPs |-> 0]

Init ==
    \E src \in Sources, sr \in SelRanges, cs \in Steps,
       st \in Starts, en \in Ends :
        InitWith(src, sr, cs, st, en) /\ its = <<>>

---------------------------------------------------------------------------
(* The state one Next() call works on *)

CallState ==
    [cursor |-> cursor, nextCalls |-> nextCalls, emptyNexts |-> emptyNexts,
     window |-> window, heap |-> heap, metrics |-> metrics, pool |-> pool,
     parses |-> parses, hung |-> FALSE]

---------------------------------------------------------------------------
(* popBack *)

\* the scan of one entry's points: lastPoint (0-based) and remove
RECURSIVE ScanPoints(_, _, _, _)
ScanPoints(points, newStart, i, acc) ==
    IF i > Len(points) THEN acc
    ELSE IF points[i].T <= newStart
      THEN ScanPoints(points, newStart, i + 1,
                      [lastPoint |-> i - 1, remove |-> TRUE])
      ELSE acc

\* variant of PopBackPoints: only the points with T < newStart are removed
PopBackPointsBelow(points, newStart) ==
    LET sc == ScanPoints(points, newStart - 1, 1,
                         [lastPoint |-> 0, remove |-> FALSE])
    IN  IF sc.remove
          THEN SubSeq(points, sc.lastPoint + 2, Len(points))
          ELSE points

\* variant of PopBackPoints: the slice starts at lastPoint, not behind it
PopBackPointsFromLast(points, newStart) ==
    LET sc == ScanPoints(points, newStart, 1, [lastPoint |-> 0, remove |-> FALSE])
    IN  IF sc.remove
          THEN SubSeq(points, sc.lastPoint + 1, Len(points))
          ELSE points

PopBackPoints(points, newStart) ==
    LET sc == ScanPoints(points, newStart, 1, [lastPoint |-> 0, remove |-> FALSE])
    IN  IF sc.remove
          THEN SubSeq(points, sc.lastPoint + 2, Len(points))
          ELSE points

\* putSeries
PutSeries(pl, s) == pl \cup {s}

\* a loop body that trims the entry but never deletes it
PopBackEntryKeepsEmpty(st, fp, newStart) ==
    LET id == st.window[fp]
    IN  [st EXCEPT !.heap[id].Points = PopBackPoints(@, newStart)]

\* variant of PopBackTrim: the cached labels go with the deleted entry
PopBackTrimDropsCache(st, fp, newStart) ==
    LET id == st.window[fp]
        points == PopBackPoints(st.heap[id].Points, newStart)
        trimmed == [st EXCEPT !.heap[id].Points = points]
    IN  IF Len(points) = 0
          THEN [trimmed EXCEPT !.window = MapRestrict(@, DOMAIN @ \ {fp}),
                               !.metrics = MapRestrict(@, DOMAIN @ \ {fp})]
          ELSE trimmed

\* the body of popBack's loop for one fingerprint up to the delete: the entry
\* is trimmed and, when no point is left, deleted from the window
PopBackTrim(st, fp, newStart) ==
    LET id == st.window[fp]
        points == PopBackPoints(st.heap[id].Points, newStart)
        trimmed == [st EXCEPT !.heap[id].Points = points]
    IN  IF Len(points) = 0
          THEN [trimmed EXCEPT !.window = MapRestrict(@, DOMAIN @ \ {fp})]
          ELSE trimmed

\* the whole body of popBack's loop for one fingerprint: the Series of a
\* deleted entry is pooled
PopBackEntry(st, fp, newStart) ==
    LET trimmed == PopBackTrim(st, fp, newStart)
    IN  IF fp \in DOMAIN trimmed.window
          THEN trimmed
          ELSE [trimmed EXCEPT !.pool = PutSeries(@, st.window[fp])]

\* variant of PopBack: the loop over the map ends at the first entry that
\* keeps a point
RECURSIVE PopBackStopsEarly(_, _, _)
PopBackStopsEarly(st, newStart, order) ==
    IF order = <<>> THEN st
    ELSE LET after == PopBackEntry(st, order[1], newStart)
         IN  IF order[1] \in DOMAIN after.window THEN after
             ELSE PopBackStopsEarly(after, newStart, Tail(order))

\* for fp := range r.window, in the order the map is ranged over
RECURSIVE PopBack(_, _, _)
PopBack(st, newStart, order) ==
    IF order = <<>> THEN st
    ELSE PopBack(PopBackEntry(st, order[1], newStart), newStart, Tail(order))

---------------------------------------------------------------------------
(* load *)

\* r.iter.Peek(): hasNext
HasNext(st) == st.cursor <= Len(source)

\* r.iter.Next()
IterNext(st) ==
    IF st.cursor <= Len(source)
      THEN [st EXCEPT !.cursor = @ + 1, !.nextCalls[st.cursor] = @ + 1]
      ELSE [st EXCEPT !.emptyNexts = @ + 1]

\* variant of AfterRange: the upper bound taken as exclusive
AfterRangeExclusive(sample, rangeEnd) == sample.TimestampNano >= rangeEnd

\* variant of AfterRange: the bound taken one nanosecond too late
AfterRangeLate(sample, rangeEnd) == sample.TimestampNano > rangeEnd + 1

\* sample.TimestampNano > end: belongs to another range
AfterRange(sample, rangeEnd) == sample.TimestampNano > rangeEnd

\* variant of BeforeRange: the lower bound taken as inclusive
BeforeRangeInclusive(sample, rangeStart) == sample.TimestampNano < rangeStart

\* sample.TimestampNano <= start: the lower bound is not inclusive
BeforeRange(sample, rangeStart) == sample.TimestampNano <= rangeStart

\* variant of GetSeries: a pooled Series is handed out and stays in the pool
GetSeriesLeavesPooled(st, policy) ==
    IF policy = "new" \/ st.pool = {}
      THEN [id |-> Len(st.heap) + 1,
            st |-> [st EXCEPT !.heap = Append(@, [Metric |-> {}, Points |-> <<>>])]]
      ELSE LET id == IF policy = "low"
                       THEN CHOOSE i \in st.pool : \A j \in st.pool : i <= j
                       ELSE CHOOSE i \in st.pool : \A j \in st.pool : i >= j
           IN  [id |-> id, st |-> [st EXCEPT !.heap[id].Points = <<>>]]

\* getSeries: a pooled Series with its points cut to length 0, or a new one.
\* sync.Pool may hand out any pooled object or none: policy says which.
GetSeries(st, policy) ==
    IF policy = "new" \/ st.pool = {}
      THEN [id |-> Len(st.heap) + 1,
            st |-> [st EXCEPT !.heap = Append(@, [Metric |-> {}, Points |-> <<>>])]]
      ELSE LET id == IF policy = "low"
                       THEN CHOOSE i \in st.pool : \A j \in st.pool : i <= j
                       ELSE CHOOSE i \in st.pool : \A j \in st.pool : i >= j
           IN  [id |-> id,
                st |-> [st EXCEPT !.pool = @ \ {id},
                                  !.heap[id].Points = <<>>]]

\* variant of AddPoint: the source is advanced twice for one sample
AddPointNextTwice(st, sample) ==
    LET id == st.window[sample.Labels]
        p == [T |-> sample.TimestampNano, V |-> sample.Value]
    IN  IterNext(IterNext([st EXCEPT !.heap[id].Points = Append(@, p)]))

\* variant of AddPoint: the point is put in front of the others
AddPointInFront(st, sample) ==
    LET id == st.window[sample.Labels]
        p == [T |-> sample.TimestampNano, V |-> sample.Value]
    IN  IterNext([st EXCEPT !.heap[id].Points = <<p>> \o @])

\* adds the sample: series.Points = append(series.Points, p); r.iter.Next()
AddPoint(st, sample) ==
    LET id == st.window[sample.Labels]
        p == [T |-> sample.TimestampNano, V |-> sample.Value]
    IN  IterNext([st EXCEPT !.heap[id].Points = Append(@, p)])

\* variant of NewSeries: the Series keeps the Metric it came with
NewSeriesKeepsMetric(st, fp, metric, policy) ==
    LET got == GetSeries(st, policy)
    IN  [got.st EXCEPT !.window = MapPut(@, fp, got.id)]

\* a new entry for the fingerprint, with the metric given
NewSeries(st, fp, metric, policy) ==
    LET got == GetSeries(st, policy)
    IN  [got.st EXCEPT !.heap[got.id].Metric = metric,
                       !.window = MapPut(@, fp, got.id)]

\* one sample of the window that has no entry yet.  When its labels are not
\* cached and do not parse the loop continues without consuming the sample:
\* it peeks the same sample again, for ever (hung).
AddToNewSeries(st, sample, policy) ==
    LET fp == sample.Labels
    IN  IF fp \in DOMAIN st.metrics
          THEN AddPoint(NewSeries(st, fp, st.metrics[fp], policy), sample)
          ELSE LET parsed == ParseMetric(fp)
                   called == [st EXCEPT !.parses[fp] = @ + 1]
               IN  IF parsed.err
                     THEN [called EXCEPT !.hung = TRUE]
                     ELSE AddPoint(
                            NewSeries([called EXCEPT
                                         !.metrics = MapPut(@, fp, parsed.metric)],
                                      fp, parsed.metric, policy),
                            sample)

RECURSIVE Load(_, _, _, _)
Load(st, rangeStart, rangeEnd, policy) ==
    IF st.hung \/ ~HasNext(st) THEN st
    ELSE LET sample == source[st.cursor]
         IN  IF AfterRange(sample, rangeEnd) THEN st
             ELSE IF BeforeRange(sample, rangeStart)
               THEN Load(IterNext(st), rangeStart, rangeEnd, policy)
             ELSE IF sample.Labels \in DOMAIN st.window
               THEN Load(AddPoint(st, sample), rangeStart, rangeEnd, policy)
             ELSE Load(AddToNewSeries(st, sample, policy),
                       rangeStart, rangeEnd, policy)

---------------------------------------------------------------------------
(* Next *)

\* r.current > r.end
PastEnd(cur, en) == cur > en

\* what seriesPool.Get() may do during one call: hand out a pooled Series
\* (the one with the lowest or the highest id) or none
Policies(pl) ==
    IF pl = {} THEN {"new"}
    ELSE IF Cardinality(pl) = 1 THEN {"new", "low"}
    ELSE {"new", "low", "high"}

\* rangeStart := r.current - r.selRange
RangeStart(cur, sr) == WrapInt(cur - sr)

\* variant of OnPastEnd: the window is emptied into the pool on exhaustion
OnPastEndRelease(st) ==
    [st EXCEPT !.window = EmptyMap,
               !.pool = @ \cup { st.window[fp] : fp \in DOMAIN st.window }]

\* return false: nothing but r.current has been assigned
OnPastEnd(st) == st

\* the states one Next() call can end in, the position having moved to cur
Outcomes(cur) ==
    IF PastEnd(cur, end)
      THEN {OnPastEnd(CallState)}
      ELSE LET rangeEnd == cur
               rangeStart == RangeStart(cur, selRange)
           IN  UNION { LET popped == PopBack(CallState, rangeStart, order)
                       IN  { Load(popped, rangeStart, rangeEnd, policy) :
                               policy \in Policies(popped.pool) }
                       : order \in Orders(DOMAIN window) }

Advance ==
    /\ ret # "hang"
    /\ calls < MaxCalls
    /\ calls' = calls + 1
    /\ at' = NoResult
    /\ current' = WrapInt(current + step)
    /\ UNCHANGED <<source, cfgStep, start, selRange, step, end, its>>
    /\ \E st \in Outcomes(current') :
          /\ cursor' = st.cursor
          /\ nextCalls' = st.nextCalls
          /\ emptyNexts' = st.emptyNexts
          /\ window' = st.window
          /\ heap' = st.heap
          /\ metrics' = st.metrics
          /\ pool' = st.pool
          /\ parses' = st.parses
          /\ ret' = IF PastEnd(current', end) THEN "false"
                    ELSE IF st.hung THEN "hang" ELSE "true"
          /\ trueEnds' = IF PastEnd(current', end) \/ st.hung THEN trueEnds
                         ELSE Append(trueEnds, current')

---------------------------------------------------------------------------
(* At *)

\* variant of At: result made with length len(r.window), not capacity
AtPresized(agg, order) ==
    LET ts == TruncDiv(current, NanosPerMilli)
        zero == [Metric |-> {}, V |-> 0, T |-> 0]
    IN  [ts |-> ts,
         agg |-> agg,
         vec |-> [i \in 1 .. Len(order) |-> zero] \o
                 [i \in 1 .. Len(order) |->
                    [Metric |-> heap[window[order[i]]].Metric,
                     V |-> Aggregate(agg, heap[window[order[i]]].Points),
                     T |-> ts]]]

At(agg, order) ==
    LET ts == TruncDiv(current, NanosPerMilli)
    IN  [ts |-> ts,
         agg |-> agg,
         vec |-> [i \in 1 .. Len(order) |->
                    [Metric |-> heap[window[order[i]]].Metric,
                     V |-> Aggregate(agg, heap[window[order[i]]].Points),
                     T |-> ts]]]

\* variant of AfterAt: the entries are released once they have been read
AfterAtReleases(st) ==
    [st EXCEPT !.window = EmptyMap,
               !.pool = @ \cup { st.window[fp] : fp \in DOMAIN st.window }]

\* At assigns to no field of the iterator and to no Series
AfterAt(st) == st

\* the map is ranged over in any order
Materialize ==
    /\ ret # "hang"
    /\ \E agg \in Aggregators, order \in Orders(DOMAIN window) :
         at' = At(agg, order)
    /\ LET st == AfterAt(CallState)
       IN  /\ cursor' = st.cursor
           /\ nextCalls' = st.nextCalls
           /\ emptyNexts' = st.emptyNexts
           /\ window' = st.window
           /\ heap' = st.heap
           /\ metrics' = st.metrics
           /\ pool' = st.pool
           /\ parses' = st.parses
    /\ UNCHANGED <<source, cfgStep, start, selRange, step, end, current,
                   calls, trueEnds, ret, its>>

---------------------------------------------------------------------------

Next == Advance \/ Materialize

Spec == Init /\ [][Next]_vars


(* The same iterator constructed with steps near the limits of the integer *)
(* type, where r.current + r.step wraps around.                            *)

WideSteps == {2 ^ (IntBits - 2), MaxInt}

InitWide ==
    \E src \in Sources, sr \in SelRanges, cs \in WideSteps,
       st \in Starts, en \in Ends :
        InitWith(src, sr, cs, st, en) /\ its = <<>>

SpecWide == InitWide /\ [][Next]_vars

---------------------------------------------------------------------------
(* The same iterator at positions around one millisecond before and after  *)
(* the epoch, where the division of At() has a remainder of either sign.   *)

MilliStarts == {-NanosPerMilli - 1, -NanosPerMilli, -NanosPerMilli + 1, -5,
                NanosPerMilli - 1, NanosPerMilli}

MilliSteps == {1, NanosPerMilli - 2}

InitMilli ==
    \E src \in Sources, cs \in MilliSteps, st \in MilliStarts :
        InitWith(src, 1, cs, st, NanosPerMilli + 1) /\ its = <<>>

SpecMilli == InitMilli /\ [][Next]_vars

---------------------------------------------------------------------------

(* Several iterators that run at the same time and share seriesPool.  Each *)
(* reads the same sample list through an iterator of its own and has its   *)
(* own window and label cache; heap and pool are shared.  A step of an     *)
(* iterator is the code between two accesses of the pool: Get and Put of   *)
(* sync.Pool are atomic, everything else an iterator touches is its own.   *)

Iters == {"q1", "q2"}

ConcSources ==
    { src \in Sources : \A k \in 1 .. Len(src) : ~ParseMetric(src[k].Labels).err }

\* pc: "idle" between calls, "pop" in the loop of popBack, "put" between
\* delete and putSeries, "load" in the loop of load, "own" between getSeries
\* and the assignment to r.window, "done" after Next() returned false;
\* todo: the fingerprints popBack has still to visit; held: the Series a
\* local variable refers to (0: none)
InitConc ==
    \E src \in ConcSources, sr \in SelRanges :
        /\ InitWith(src, sr, 0, 0, MaxT)
        /\ its = [i \in Iters |->
                    [pc |-> "idle", current |-> current, cursor |-> 1,
                     window |-> EmptyMap, metrics |-> EmptyMap,
                     todo |-> <<>>, held |-> 0]]

\* the iterator i and the shared heap and pool, as one call state
ConcState(i) ==
    [CallState EXCEPT !.cursor = its[i].cursor,
                      !.window = its[i].window,
                      !.metrics = its[i].metrics]

ConcUpdate(i, st, pc, todo, held, cur) ==
    /\ its' = [its EXCEPT ![i] =
                 [pc |-> pc, current |-> cur, cursor |-> st.cursor,
                  window |-> st.window, metrics |-> st.metrics,
                  todo |-> todo, held |-> held]]
    /\ heap' = st.heap
    /\ pool' = st.pool
    /\ UNCHANGED <<source, cursor, nextCalls, emptyNexts, cfgStep, start,
                   selRange, step, end, current, window, metrics, calls,
                   trueEnds, ret, at, parses>>

\* Next() up to the call of popBack
ConcNext(i) ==
    /\ its[i].pc = "idle"
    /\ LET cur == WrapInt(its[i].current + step)
       IN  IF PastEnd(cur, end)
             THEN ConcUpdate(i, OnPastEnd(ConcState(i)), "done", <<>>, 0, cur)
             ELSE \E order \in Orders(DOMAIN its[i].window) :
                    ConcUpdate(i, ConcState(i),
                               IF order = <<>> THEN "load" ELSE "pop",
                               order, 0, cur)

\* one pass of popBack's loop, up to the delete
ConcTrim(i) ==
    /\ its[i].pc = "pop"
    /\ LET fp == Head(its[i].todo)
           rest == Tail(its[i].todo)
           st == PopBackTrim(ConcState(i), fp,
                             RangeStart(its[i].current, selRange))
       IN  IF fp \in DOMAIN st.window
             THEN ConcUpdate(i, st, IF rest = <<>> THEN "load" ELSE "pop",
                             rest, 0, its[i].current)
             ELSE ConcUpdate(i, st, "put", rest, its[i].window[fp],
                             its[i].current)

\* putSeries(s) for the entry just deleted
ConcPut(i) ==
    /\ its[i].pc = "put"
    /\ ConcUpdate(i, [ConcState(i) EXCEPT !.pool = PutSeries(@, its[i].held)],
                  IF its[i].todo = <<>> THEN "load" ELSE "pop",
                  its[i].todo, 0, its[i].current)

\* one pass of load's loop, up to getSeries for a sample without an entry
ConcLoad(i) ==
    /\ its[i].pc = "load"
    /\ LET st == ConcState(i)
           cur == its[i].current
       IN  IF ~HasNext(st) THEN ConcUpdate(i, st, "idle", <<>>, 0, cur)
           ELSE LET sample == source[st.cursor]
                    fp == sample.Labels
                IN  IF AfterRange(sample, cur)
                      THEN ConcUpdate(i, st, "idle", <<>>, 0, cur)
                    ELSE IF BeforeRange(sample, RangeStart(cur, selRange))
                      THEN ConcUpdate(i, IterNext(st), "load", <<>>, 0, cur)
                    ELSE IF fp \in DOMAIN st.window
                      THEN ConcUpdate(i, AddPoint(st, sample), "load", <<>>, 0, cur)
                    ELSE LET cached ==
                               IF fp \in DOMAIN st.metrics THEN st
                               ELSE [st EXCEPT !.metrics =
                                       MapPut(@, fp, ParseMetric(fp).metric)]
                         IN  \E policy \in Policies(pool) :
                               LET got == GetSeries(cached, policy)
                               IN  ConcUpdate(i, got.st, "own", <<>>, got.id, cur)

\* series.Metric = metric; r.window[lbs] = series; the point; r.iter.Next()
ConcOwn(i) ==
    /\ its[i].pc = "own"
    /\ LET st == ConcState(i)
           sample == source[st.cursor]
           fp == sample.Labels
           owned == [st EXCEPT !.heap[its[i].held].Metric = st.metrics[fp],
                               !.window = MapPut(@, fp, its[i].held)]
       IN  ConcUpdate(i, AddPoint(owned, sample), "load", <<>>, 0,
                      its[i].current)

NextConc ==
    \E i \in Iters :
        ConcNext(i) \/ ConcTrim(i) \/ ConcPut(i) \/ ConcLoad(i) \/ ConcOwn(i)

SpecConc == InitConc /\ [][NextConc]_vars

\* the entries, of any iterator, whose Series is the one with this id
Owners(id) ==
    { e \in UNION { { <<i, fp>> : fp \in DOMAIN its[i].window } : i \in DOMAIN its } :
        its[e[1]].window[e[2]] = id }

---------------------------------------------------------------------------

(* What the properties speak of *)

\* rangeStart < T <= rangeEnd, for the bounds of the current position
InWindow(t) == RangeStart(current, selRange) < t /\ t <= current

Resolves(fp) == ~ParseMetric(fp).err

AllResolve == \A i \in 1 .. Len(source) : Resolves(source[i].Labels)

\* the points the window store holds for each fingerprint
Store == [fp \in DOMAIN window |-> heap[window[fp]].Points]

\* the window recomputed from the whole sample list
RefPoints(fp) ==
    LET sel == SelectSeq(source,
                 LAMBDA s : s.Labels = fp /\ InWindow(s.TimestampNano))
    IN  [i \in 1 .. Len(sel) |-> [T |-> sel[i].TimestampNano, V |-> sel[i].Value]]

RefWindow ==
    [fp \in { f \in FPs : RefPoints(f) # <<>> } |-> RefPoints(fp)]

\* the largest position at which Next() returned true so far
ReachedEnd(t) == \E k \in 1 .. Len(trueEnds) : t <= trueEnds[k]

\* the number of positions start, start + step, ... that are <= end
Positions ==
    IF start <= end THEN ((end - start) \div step) + 1 ELSE 0

---------------------------------------------------------------------------
(* C1 *)

\* C1: window exactness.  For a source non-decreasing in timestamp, a step
\* >= 1 and labels that all resolve, after every Next() that returned true
\* the window store holds, for each fingerprint, exactly the source samples
\* of that fingerprint with rangeStart < T <= rangeEnd, in source order and
\* with duplicates kept, and no entry for any other fingerprint.
C1_WindowExact ==
    (ret = "true" /\ step >= 1 /\ AllResolve) => Store = RefWindow

\* a window that kept one point of an entry and evicted the point before it
C1_Witness ==
    /\ ret = "true" /\ step >= 1 /\ AllResolve
    /\ Len(source) = 2
    /\ source[1].Labels = source[2].Labels
    /\ Len(trueEnds) >= 2
    /\ source[1].TimestampNano > RangeStart(trueEnds[1], selRange)
    /\ source[1].TimestampNano <= trueEnds[1]
    /\ DOMAIN window = {source[2].Labels}
    /\ Store[source[2].Labels] = <<[T |-> source[2].TimestampNano, V |-> 2]>>

---------------------------------------------------------------------------
(* C2 *)

\* C2 as stated: between calls, after any sequence of Next() and At() calls
\* (also Next() calls that returned false), every point held in the window
\* store satisfies rangeStart < T <= rangeEnd for the current position.
C2_PointsInCurrentBounds ==
    (ret # "hang" /\ step >= 1) =>
        \A fp \in DOMAIN window :
            \A k \in 1 .. Len(Store[fp]) : InWindow(Store[fp][k].T)

\* C2, amended: with a step >= 1, between calls and as long as no Next()
\* call has returned false, every point held in the window store satisfies
\* rangeStart < T <= rangeEnd for the current position.
C2_PointsInBoundsWhileReady ==
    (ret \in {"none", "true"} /\ Len(trueEnds) = calls /\ step >= 1) =>
        \A fp \in DOMAIN window :
            \A k \in 1 .. Len(Store[fp]) : InWindow(Store[fp][k].T)

\* after At(), a store that lost one point to eviction and kept a later one
C2_Witness ==
    /\ ret = "true" /\ Len(trueEnds) = calls /\ step >= 1
    /\ at.agg # "none"
    /\ Len(source) = 2
    /\ nextCalls[1] = 1
    /\ Resolves(source[1].Labels)
    /\ source[1].TimestampNano > RangeStart(trueEnds[1], selRange)
    /\ source[1].TimestampNano <= RangeStart(current, selRange)
    /\ \E fp \in DOMAIN window : Store[fp][1].V = 2

---------------------------------------------------------------------------
(* C3 *)

\* C3: label resolution failure is not fatal.  When load reaches a sample
\* of the current window whose labels do not parse, the sample is consumed,
\* nothing is stored for it, and Next() returns.
C3_ResolutionFailureNonFatal ==
    \A i \in 1 .. Len(source) :
        ( /\ ret \in {"true", "hang"}
          /\ i <= cursor
          /\ ~Resolves(source[i].Labels)
          /\ InWindow(source[i].TimestampNano) )
        => ( /\ ret = "true"
             /\ nextCalls[i] = 1
             /\ source[i].Labels \notin DOMAIN window )

---------------------------------------------------------------------------
(* C4 *)

---------------------------------------------------------------------------
(* C5 *)

\* C5: single consumption, at most once.  iter.Next() has been called at
\* most once for each sample and never on an exhausted source; the samples
\* consumed are those before the cursor; and every point of the window
\* store is one consumed sample, held once.
C5_ConsumedAtMostOnce ==
    /\ emptyNexts = 0
    /\ \A i \in 1 .. Len(source) :
          /\ nextCalls[i] <= 1
          /\ nextCalls[i] = 1 <=> i < cursor
    /\ \A fp \in DOMAIN window :
          \A k \in 1 .. Len(Store[fp]) :
             LET i == Store[fp][k].V
             IN  /\ i < cursor
                 /\ source[i].Labels = fp
                 /\ source[i].TimestampNano = Store[fp][k].T
                 /\ \A j \in 1 .. Len(Store[fp]) : Store[fp][j].V = i => j = k

\* a sample read once that has been in two successive windows
C5_Witness ==
    /\ Len(trueEnds) >= 2
    /\ ret = "true"
    /\ \E fp \in DOMAIN window :
          LET i == Store[fp][1].V
          IN  /\ source[i].TimestampNano <= trueEnds[Len(trueEnds) - 1]
              /\ nextCalls[i] = 1
    /\ cursor = Len(source) + 1

---------------------------------------------------------------------------
(* C6 *)

\* C6 as stated: once Next() has returned false, iter.Next() has been
\* called exactly once for every sample of the source.
C6_AllConsumedExactlyOnce ==
    ret = "false" => \A i \in 1 .. Len(source) : nextCalls[i] = 1

\* C6, amended: once Next() has returned false, iter.Next() has been called
\* exactly once for every sample whose timestamp is <= a position at which
\* Next() returned true, and never for any other sample.
C6_ConsumedUpToLastPosition ==
    ret = "false" =>
        \A i \in 1 .. Len(source) :
            nextCalls[i] = IF ReachedEnd(source[i].TimestampNano) THEN 1 ELSE 0

\* a finished run that consumed one sample and left a later one unread
C6_Witness ==
    /\ ret = "false"
    /\ Len(source) = 2
    /\ nextCalls[1] = 1
    /\ nextCalls[2] = 0
    /\ Len(trueEnds) >= 2

---------------------------------------------------------------------------
(* C7 *)

\* C7: with a step >= 1 the k-th Next() that returns true is at position
\* start + (k-1)*step; Next() returns true exactly Positions times and then
\* false, and every call returns, so a caller's loop terminates.
C7_PositionsAndTermination ==
    step >= 1 =>
        /\ ret # "hang"
        /\ \A k \in 1 .. Len(trueEnds) : trueEnds[k] = start + (k - 1) * step
        /\ calls <= Positions => (Len(trueEnds) = calls /\ ret # "false")
        /\ calls > Positions => (Len(trueEnds) = Positions /\ ret = "false")

---------------------------------------------------------------------------
(* C8 *)

\* C8: exhausted is terminal.  Once a Next() call has returned false every
\* later Next() call returns false.
C8_ExhaustedIsTerminal ==
    [][(step >= 1 /\ ret = "false") => ret' = "false"]_vars

---------------------------------------------------------------------------
(* C9 *)

\* C9 as stated: a Next() call that returns false changes no state: the
\* window store, the label cache, the source cursor and the position stay
\* as they were.
C9_FalseAdvanceChangesNothing ==
    [][(calls' = calls + 1 /\ ret' = "false") =>
          /\ window' = window
          /\ heap' = heap
          /\ pool' = pool
          /\ metrics' = metrics
          /\ cursor' = cursor
          /\ current' = current]_vars

\* C9, amended: a Next() call that returns false adds the step to the
\* position and changes nothing else: the window store, the label cache,
\* the pool and the source cursor stay as they were.
C9_FalseAdvanceMovesPositionOnly ==
    [][(calls' = calls + 1 /\ ret' = "false") =>
          /\ window' = window
          /\ heap' = heap
          /\ pool' = pool
          /\ metrics' = metrics
          /\ cursor' = cursor
          /\ nextCalls' = nextCalls
          /\ current' = WrapInt(current + step)]_vars

\* two Next() calls have returned false over a store that holds a point
C9_Witness ==
    /\ ret = "false"
    /\ calls >= Len(trueEnds) + 2
    /\ window # EmptyMap
    /\ cursor <= Len(source)
    /\ current = WrapInt(start + (calls - 1) * step)

---------------------------------------------------------------------------
(* C10 *)

\* C10: At emits one element per entry of the window store and no other:
\* the vector is as long as the store has entries; for each entry there is
\* one element with the labels of the entry's fingerprint, whose value is
\* the aggregator applied to the entry's points and whose timestamp is the
\* timestamp returned.  On an empty store the vector is empty.
C10_OneElementPerEntry ==
    at.agg # "none" =>
        /\ Len(at.vec) = Cardinality(DOMAIN window)
        /\ \A fp \in DOMAIN window :
              \E i \in 1 .. Len(at.vec) :
                 /\ at.vec[i].Metric = ParseMetric(fp).metric
                 /\ at.vec[i].V = Aggregate(at.agg, Store[fp])
                 /\ at.vec[i].T = at.ts
                 /\ \A j \in 1 .. Len(at.vec) :
                       at.vec[j].Metric = at.vec[i].Metric => j = i

\* the sum over a store of two entries, after two Next() calls
C10_Witness ==
    /\ at.agg = "sum"
    /\ Len(at.vec) = 2
    /\ \E fp \in DOMAIN window : Len(Store[fp]) = 1 /\ Store[fp][1].V = 2
    /\ calls >= 2

---------------------------------------------------------------------------
\* C11: the timestamp of At() is the position divided by 1,000,000 with the
\* quotient truncated toward zero, for positions of either sign: -5 gives 0
\* and -1,000,001 gives -1
C11_TimestampTruncatesTowardZero ==
    at.agg # "none" =>
        /\ current >= 0 =>
             /\ at.ts >= 0
             /\ at.ts * 1000000 <= current
             /\ current < (at.ts + 1) * 1000000
        /\ current < 0 =>
             /\ at.ts <= 0
             /\ at.ts * 1000000 >= current
             /\ current > (at.ts - 1) * 1000000
        /\ current = -5 => at.ts = 0
        /\ current = -1000001 => at.ts = -1

\* At() at the position -1,000,001
C11_Witness ==
    /\ at.agg # "none"
    /\ current = -1000001
    /\ at.ts = -1

---------------------------------------------------------------------------
\* C12: between calls the store holds no entry without points: an entry is
\* deleted in the eviction pass that evicts its last point, and a buffer in
\* the pool belongs to no entry of the store and holds no points
C12_NoEmptyEntryReleaseOnlyOnEmpty ==
    /\ \A fp \in DOMAIN window : Len(Store[fp]) > 0
    /\ \A id \in pool :
         /\ heap[id].Points = <<>>
         /\ \A fp \in DOMAIN window : window[fp] # id

\* one entry was deleted and its buffer pooled while another entry stays
C12_Witness ==
    /\ ret = "true"
    /\ pool # {}
    /\ window # EmptyMap
    /\ \E i \in 1 .. Len(source) :
         /\ i < cursor
         /\ Resolves(source[i].Labels)
         /\ source[i].Labels \notin DOMAIN window

---------------------------------------------------------------------------
\* C13: with several iterators running at the same time on one pool, in
\* every interleaving no buffer is the Series of two entries, and no buffer
\* is in the pool while it is the Series of an entry
C13_BufferExclusive ==
    \A id \in 1 .. Len(heap) :
        /\ Cardinality(Owners(id)) <= 1
        /\ id \in pool => Owners(id) = {}

\* the only buffer ever allocated has been used by both iterators for the
\* first sample, and one of them holds it now
C13_Witness ==
    /\ DOMAIN its = Iters
    /\ Len(heap) = 1
    /\ Len(source) >= 1
    /\ RangeStart(start, selRange) < source[1].TimestampNano
    /\ source[1].TimestampNano <= start
    /\ \A i \in Iters : its[i].cursor > 1
    /\ Owners(1) # {}

---------------------------------------------------------------------------
\* what a call state holds for each fingerprint: labels and points
ContentOf(st) ==
    [fp \in DOMAIN st.window |->
        [Metric |-> st.heap[st.window[fp]].Metric,
         Points |-> st.heap[st.window[fp]].Points]]

\* the elements of a result as a set
ElementsOf(res) ==
    { [Metric |-> res.vec[k].Metric, V |-> res.vec[k].V] : k \in 1 .. Len(res.vec) }

\* C14: the order in which the map of the store is ranged over changes
\* nothing that can be observed: from every state the next advance reaches
\* the same store whatever the order of eviction, and At() gives the same
\* timestamp and the same set of (labels, value) elements whatever its order
C14_OrderIndependent ==
    ret # "hang" =>
        LET cur == WrapInt(current + step)
            rs == RangeStart(cur, selRange)
        IN  \A o1 \in Orders(DOMAIN window), o2 \in Orders(DOMAIN window) :
              /\ \A policy \in {"new", "low", "high"} :
                   ContentOf(Load(PopBack(CallState, rs, o1), rs, cur, policy))
                     = ContentOf(Load(PopBack(CallState, rs, o2), rs, cur, policy))
              /\ \A agg \in Aggregators :
                   /\ At(agg, o1).ts = At(agg, o2).ts
                   /\ ElementsOf(At(agg, o1)) = ElementsOf(At(agg, o2))

\* a store of two entries of which the next advance deletes one and keeps
\* the other, after an At() of two elements
C14_Witness ==
    /\ ret = "true"
    /\ at.agg # "none"
    /\ Len(at.vec) = 2
    /\ ~PastEnd(WrapInt(current + step), end)
    /\ \E fp1 \in DOMAIN window, fp2 \in DOMAIN window :
         LET rs == RangeStart(WrapInt(current + step), selRange)
         IN  /\ \A k \in 1 .. Len(Store[fp1]) : Store[fp1][k].T <= rs
             /\ \E k \in 1 .. Len(Store[fp2]) : Store[fp2][k].T > rs

---------------------------------------------------------------------------
\* C15: a Next() call consumes only samples with a timestamp <= the position
\* it moved to (so none with a timestamp > end), and when it returns true
\* with samples left, the head of the source has a timestamp > that position
C15_NoFutureSampleConsumed ==
    [][calls' = calls + 1 =>
         /\ \A i \in 1 .. Len(source) :
              nextCalls'[i] > nextCalls[i] =>
                  /\ source[i].TimestampNano <= current'
                  /\ source[i].TimestampNano <= end
         /\ (ret' = "true" /\ cursor' <= Len(source)) =>
              source[cursor'].TimestampNano > current']_vars

\* a Next() that consumed a sample and stopped at a later one
C15_Witness ==
    /\ ret = "true"
    /\ 1 < cursor
    /\ cursor <= Len(source)
    /\ nextCalls[cursor - 1] = 1
    /\ source[cursor - 1].TimestampNano <= current
    /\ source[cursor].TimestampNano > current

---------------------------------------------------------------------------
\* C16: popBack(newStart), on the store of any reachable state and for any
\* newStart, removes from each entry exactly a prefix: the points kept are
\* the rest of the entry in their order, every point removed has
\* T <= newStart and every point kept has T > newStart
C16_EvictionRemovesExpiredPrefix ==
    \A newStart \in -1 .. MaxT + 1, order \in Orders(DOMAIN window) :
        LET after == PopBack(CallState, newStart, order)
        IN  \A fp \in DOMAIN window :
              LET before == Store[fp]
                  kept == IF fp \in DOMAIN after.window
                            THEN after.heap[after.window[fp]].Points
                            ELSE <<>>
                  n == Len(before) - Len(kept)
              IN  /\ n >= 0
                  /\ kept = SubSeq(before, n + 1, Len(before))
                  /\ \A k \in 1 .. n : before[k].T <= newStart
                  /\ \A k \in 1 .. Len(kept) : kept[k].T > newStart

\* the last Next() evicted the point of an earlier sample from an entry and
\* kept a later point of the same entry
C16_Witness ==
    /\ ret = "true"
    /\ Len(trueEnds) >= 2
    /\ \E i \in 1 .. Len(source) :
         LET fp == source[i].Labels
             t == source[i].TimestampNano
             prev == trueEnds[Len(trueEnds) - 1]
         IN  /\ RangeStart(prev, selRange) < t
             /\ t <= prev
             /\ t <= RangeStart(current, selRange)
             /\ fp \in DOMAIN window
             /\ \E k \in 1 .. Len(Store[fp]) :
                  Store[fp][k].V > i /\ Store[fp][k].T <= prev

---------------------------------------------------------------------------
\* C17: the source being non-decreasing in timestamp, the points of every
\* entry of the store are in non-decreasing timestamp order in every
\* reachable state
C17_PointsAscending ==
    \A fp \in DOMAIN window :
        \A k \in 1 .. Len(Store[fp]) - 1 : Store[fp][k].T <= Store[fp][k + 1].T

\* an entry whose first point an eviction pass has kept and to which the
\* ingestion of the same Next() has appended a later point
C17_Witness ==
    /\ ret = "true"
    /\ Len(trueEnds) >= 2
    /\ \E fp \in DOMAIN window :
         /\ Len(Store[fp]) = 2
         /\ Store[fp][1].T < Store[fp][2].T
         /\ Store[fp][1].T <= trueEnds[Len(trueEnds) - 1]
         /\ Store[fp][2].T > trueEnds[Len(trueEnds) - 1]

---------------------------------------------------------------------------
\* C18: no step removes or changes an entry of the label cache, also when
\* the series leaves the window; parser.ParseMetric is called at most once
\* for a fingerprint that parses, and never for one that is in the cache
C18_CacheOnlyGrows ==
    [][/\ \A fp \in DOMAIN metrics :
            /\ fp \in DOMAIN metrics'
            /\ metrics'[fp] = metrics[fp]
            /\ parses'[fp] = parses[fp]
       /\ \A fp \in FPs : Resolves(fp) => parses'[fp] <= 1]_vars

\* a series that left the window and came back: its entry holds the second
\* sample only, the first having been held and evicted, after one parse
C18_Witness ==
    /\ ret = "true"
    /\ Len(source) = 2
    /\ source[1].Labels = source[2].Labels
    /\ source[1].Labels \in DOMAIN window
    /\ Len(Store[source[1].Labels]) = 1
    /\ Store[source[1].Labels][1].V = 2
    /\ parses[source[1].Labels] = 1
    /\ \E k \in 1 .. Len(trueEnds) - 1 :
         /\ RangeStart(trueEnds[k], selRange) < source[1].TimestampNano
         /\ source[1].TimestampNano <= trueEnds[k]
         /\ source[2].TimestampNano > trueEnds[k]

---------------------------------------------------------------------------
\* C19: getSeries returns a Series without points, also a pooled one, and an
\* entry, also one made from a pooled Series, carries the labels of its own
\* fingerprint and holds only points of consumed samples of that fingerprint
C19_ReusedBufferIsClean ==
    /\ \A policy \in {"new", "low", "high"} :
         LET got == GetSeries(CallState, policy)
         IN  got.st.heap[got.id].Points = <<>>
    /\ \A fp \in DOMAIN window :
         /\ heap[window[fp]].Metric = ParseMetric(fp).metric
         /\ \A k \in 1 .. Len(Store[fp]) :
              LET p == Store[fp][k]
              IN  /\ p.V \in 1 .. Len(source)
                  /\ source[p.V].Labels = fp
                  /\ source[p.V].TimestampNano = p.T
                  /\ nextCalls[p.V] = 1

\* the only Series ever allocated belonged to another fingerprint before
C19_Witness ==
    /\ ret = "true"
    /\ Len(heap) = 1
    /\ \E fp \in DOMAIN window, other \in DOMAIN metrics :
         /\ other # fp
         /\ other \notin DOMAIN window
         /\ window[fp] = 1
         /\ Len(Store[fp]) = 1

---------------------------------------------------------------------------
\* C20: At() changes nothing of the iterator: store, buffers, pool, label
\* cache, source position and the position of the iterator are the same
\* after it, and an At() that follows another with the same aggregator gives
\* the same timestamp and the same set of elements
C20_AtIsReadOnly ==
    [][at'.agg # "none" =>
         /\ UNCHANGED <<window, heap, pool, metrics, parses, cursor, nextCalls,
                        emptyNexts, current, selRange, step, end, calls, ret>>
         /\ at.agg = at'.agg =>
              /\ at'.ts = at.ts
              /\ ElementsOf(at') = ElementsOf(at)]_vars

\* a result of At() over a store with entries, with samples still to come
C20_Witness ==
    /\ ret = "true"
    /\ at.agg = "count"
    /\ Len(at.vec) >= 1
    /\ Len(at.vec) = Cardinality(DOMAIN window)
    /\ cursor <= Len(source)
    /\ ~PastEnd(WrapInt(current + step), end)

=============================================================================
